---- MODULE Spec2Model ----
(***************************************************************************)
(* Request orchestration of the Canary ASR service:                        *)
(*   src/canary_api/endpoints/transcriptions_endpoint.py                   *)
(*   src/canary_api/services/canary_service.py                             *)
(*   src/main.py                                                           *)
(*                                                                         *)
(* One uvicorn process (main.py:19) runs one asyncio event loop.  Every    *)
(* POST /inference is a coroutine (asr_endpoint) on that loop.  A          *)
(* coroutine gives the loop back only at an await; asr_endpoint awaits     *)
(* request.form() and input_file.read(), and process_asr_request holds no  *)
(* await at all, so it runs from entry to return or raise in one piece.    *)
(* The variable loop says which coroutine the event loop is running.       *)
(*                                                                         *)
(* Times (durations, word and segment stamps) are whole ticks; the float   *)
(* arithmetic of the code is not modelled.                                 *)
(***************************************************************************)
EXTENDS Integers, Sequences, FiniteSets, TLC

\* ------------------------------------------------------------------ bounds
\* beam sizes a request may carry: 1..MaxBeam
MaxBeam == 2
\* measured audio durations: 1..MaxDuration ticks
MaxDuration == 5
\* word stamps one inference result may carry
MaxWords == 2

\* ------------------------------------------------- configuration (settings)
\* settings.beam_size: the decoding beam size of the default configuration
SettingsBeamSize == 1
\* settings.max_chunk_duration_sec, in ticks
MaxChunkDurationSec == 2

\* ------------------------------------------------------------- input sets
Requests == {"r1", "r2"}
SUPPORTED_LANGUAGES == {"en", "de", "fr", "es"}
Languages == {"en", "xx"}
\* the leading bytes of the upload: a RIFF container, another container, nothing
AudioHeads == {"RIFF", "OggS", ""}
\* the timestamps form field; "None" is Python's None (field absent at the
\* process_asr_request level)
TimestampFields == {"yes", "no", "None", "true"}
ResponseFormats == {"text", "json", "verbose_json", "srt", "vtt", "xml"}
BeamSizes == 1..MaxBeam
\* word_boosting: None, or a parsed JSON list
WordBoosts == {<<>>, <<"nvidia">>}
NoBoost == <<>>
Durations == 1..MaxDuration

NoReq ==
    [language |-> "-", audio |-> "-", timestamps |-> "-", response_format |-> "-",
     beam_size |-> 0, word_boosting |-> <<>>]
\* an exception that is no HTTPException carries no status code
NoStatusCode == 0
NoResp == [status |-> 0, reason |-> "-", detail |-> "-"]

VARIABLES
    loop,          \* the coroutine the event loop is running, or "free"
    is_flash,      \* transcriber.is_flash_model
    cfgBeam,       \* transcriber.model.cfg.decoding.beam.beam_size
    activeBeam,    \* beam size of the decoding strategy the model decodes with
    pc,            \* each request's position in asr_endpoint / process_asr_request
    req,           \* the parameters of process_asr_request
    flag,          \* timestamps_flag: "True" or "None"
    topFile,       \* audio_path: "none", "exists", "removed"
    duration,      \* the measured duration of audio_path (0: not measured)
    chunks,        \* the measured durations of chunk_paths, in order
    chunkFiles,    \* the indices of the chunk files on disk
    idx,           \* the chunk the for loop is at (1-based)
    offset,        \* offset
    texts,         \* texts
    timestamps_all,\* timestamps_all
    all_results,   \* all_results
    returned,      \* history: every result the capability returned, in call order
    reconfigs,     \* history: change_decoding_strategy calls made for the request
    transcribeCalls,\* history: calls of transcriber.transcribe made for the request
    inferCalls,    \* history: model.transcribe invocations made for the request
    resp,          \* the response: status, cause (history) and the detail the caller reads
    beamBefore,    \* history: cfgBeam and activeBeam as line 85 found them, until line 91
    payload        \* the content process_asr_request returned

vars == <<loop, is_flash, cfgBeam, activeBeam, pc, req, flag, topFile, duration,
          chunks, chunkFiles, idx, offset, texts, timestamps_all, all_results,
          returned, reconfigs, transcribeCalls, inferCalls, resp, beamBefore, payload>>

\* the request-local variables no step before the transcribe call writes
mergeVars == <<offset, texts, timestamps_all, all_results, returned, payload>>

NoTimeline == [word |-> <<>>, segment |-> <<>>]

\* no decoding profile recorded
NoProfile == <<0, 0>>

\* no content: the handler has not returned one
NoPayload ==
    [kind |-> "none", text |-> <<>>, timestamps |-> NoTimeline, stamped |-> FALSE,
     records |-> <<>>]

\* ------------------------------------------------------------ pure steps

\* ValidationFailure without the container check
ValidationFailureLanguageOnly(language, audio_bytes) ==
    IF language \notin SUPPORTED_LANGUAGES THEN "UnsupportedLanguage" ELSE "ok"

\* process_asr_request, lines 56-63: the language check, then the container
\* check on the leading bytes of the upload.
ValidationFailure(language, audio_bytes) ==
    IF language \notin SUPPORTED_LANGUAGES THEN "UnsupportedLanguage"
    ELSE IF audio_bytes = "" \/ audio_bytes # "RIFF" THEN "InvalidAudio"
    ELSE "ok"

\* TimestampsFlag without the forcing for srt and vtt
TimestampsFlagUnforced(response_format, timestamps) ==
    IF response_format = "text" THEN "None"
    ELSE IF timestamps = "yes" THEN "True" ELSE "None"

\* process_asr_request, lines 65-77: timestamps_flag.
TimestampsFlag(response_format, timestamps) ==
    IF response_format = "text" THEN "None"
    ELSE LET ts == IF response_format \in {"srt", "vtt"} THEN "yes" ELSE timestamps
         IN  IF ts = "yes" THEN "True"
             ELSE IF ts = "no" \/ ts = "None" THEN "None"
             ELSE "None"

\* NeedsReconfigure of a handler that reconfigures for every request
NeedsReconfigureAlways(beam_size) == TRUE

\* process_asr_request, line 85: the test that guards the reconfiguration.
NeedsReconfigure(beam_size) == beam_size # SettingsBeamSize

\* TimestampsUnsupported with the model test inverted
TimestampsUnsupportedInverted(timestamps_flag, flash) ==
    timestamps_flag = "True" /\ flash

\* process_asr_request, line 91.
TimestampsUnsupported(timestamps_flag, flash) ==
    timestamps_flag = "True" /\ ~flash

\* CanaryService.transcribe, lines 49-57: the parameters of its signature
\* (there is no **kwargs).
TranscribeParameters ==
    {"audio_input", "batch_size", "pnc", "timestamps", "source_lang", "target_lang"}

\* process_asr_request, lines 115-123 and 153-161: the keywords of both calls.
CallKeywords ==
    {"audio_input", "batch_size", "pnc", "timestamps", "source_lang", "target_lang",
     "word_boosting"}

\* Python binds a call only if every keyword is a parameter; otherwise the call
\* raises TypeError before the body runs.
CallBinds == CallKeywords \subseteq TranscribeParameters

\* CanaryService.transcribe, lines 79-86: what it hands to model.transcribe.
ForwardedKeywords ==
    {"audio", "source_lang", "target_lang", "batch_size", "pnc", "timestamps"}

\* split_audio_into_chunks(audio_path, max_chunk_duration_sec): the durations of
\* the chunk files, in playback order; every chunk but the last is full.
RECURSIVE SplitDurations(_, _)
SplitDurations(d, maxd) ==
    IF d <= maxd THEN <<d>> ELSE <<maxd>> \o SplitDurations(d - maxd, maxd)

\* ShiftToken moving the start only
ShiftTokenStartOnly(tok, off) == [tok EXCEPT !.start = @ + off]

\* process_asr_request, lines 137-138 and 143-144.
ShiftToken(tok, off) == [tok EXCEPT !.start = @ + off, !.end = @ + off]

\* ShiftAll leaving every token where it is
ShiftAllUnshifted(toks, off) == toks

\* process_asr_request, lines 136-139 and 142-145: the tokens of one list,
\* shifted, in their order.
ShiftAll(toks, off) == [i \in 1..Len(toks) |-> ShiftToken(toks[i], off)]

\* FinallyTopFile without the removal
FinallyTopFileKept(f) == f

\* process_asr_request, lines 192-193: what the finally clause leaves of audio_path.
FinallyTopFile(f) == "removed"

\* LoopAfter of a handler that awaits at every step
LoopAfterAlwaysFree(r, p) == "free"

\* AwaitPoints of a handler that awaits its transcribe calls as well
AwaitPointsWithCall == {"await_form", "await_read", "transcribe"}

\* the event loop after a step of r that leaves r at position p: the
\* coroutine gives the loop back only at an await (lines 199 and 205) or when
\* it ends.
AwaitPoints == {"await_form", "await_read"}
Ended == {"Done", "Failed"}
LoopAfter(r, p) == IF p \in AwaitPoints \cup Ended \cup {"idle"} THEN "free" ELSE r

\* the event loop runs r's next step: r holds the loop, or the loop is free
\* and resumes r.
Runnable(r) == loop = "free" \/ loop = r

\* r's coroutine is suspended: started, not ended, and not on the event loop
Suspended(r) == pc[r] \notin {"idle", "Cancelled"} \cup Ended /\ loop # r

\* the positions inside the try block of process_asr_request, lines 83-193
InTry == {"ensure", "reconfigure", "tscheck", "measure", "split", "transcribe", "format"}

\* ---------------------------------------------------- inference capability
\* The results model.transcribe may return for an audio of duration d: a text
\* and, possibly, word and segment stamps in file-local time.
\* A word is a sequence of characters; with punctuation on, a word may carry a
\* comma.  The word list and the segment list of a result are merged
\* independently of each other, so a result with a segment stamp is given at
\* most one word stamp.
WordText(s) == IF s % 2 = 0 THEN <<"h", "i", ",">> ELSE <<"o", "k">>
WordTokens(d) == {[word |-> WordText(s), start |-> s, end |-> s + 1] : s \in 0..(d - 1)}
WordLists(d) ==
    UNION {[1..n -> WordTokens(d)] : n \in 0..MaxWords}
SegmentLists(d) == {<<>>, <<[word |-> <<"s">>, start |-> 0, end |-> d]>>}
Texts == {<<"a">>, <<"b">>}
Results(d) ==
    {[text |-> t, has_ts |-> FALSE, word |-> <<>>, segment |-> <<>>] : t \in Texts}
    \cup {[text |-> <<"a">>, has_ts |-> TRUE, word |-> w, segment |-> <<>>] :
            w \in WordLists(d)}
    \cup {[text |-> <<"a">>, has_ts |-> TRUE, word |-> w, segment |-> s] :
            w \in {v \in WordLists(d) : Len(v) <= 1}, s \in SegmentLists(d)}

\* CanaryService.transcribe, line 85, hands timestamps on to model.transcribe:
\* a result carries stamps only if the call asked for them.
ResultsFor(timestamps_flag, d) ==
    IF timestamps_flag = "True" THEN Results(d)
    ELSE {res \in Results(d) : ~res.has_ts}

\* -------------------------------------------------------------- formatting
\* Rendered text is a sequence of characters.
\* line 169, " ".join(texts): the texts with sep between neighbours
JoinDoubled(sep, ts) ==
    IF ts = <<>> THEN <<>>
    ELSE LET F[i \in 1..Len(ts)] ==
                 IF i = 1 THEN ts[1] ELSE F[i - 1] \o sep \o sep \o ts[i]
         IN  F[Len(ts)]
Join(sep, ts) ==
    IF ts = <<>> THEN <<>>
    ELSE LET F[i \in 1..Len(ts)] ==
                 IF i = 1 THEN ts[1] ELSE F[i - 1] \o sep \o ts[i]
         IN  F[Len(ts)]

\* clean_transcription: runs of whitespace collapsed, both ends trimmed
RECURSIVE Collapse(_)
Collapse(s) ==
    IF Len(s) < 2 THEN s
    ELSE IF s[1] = " " /\ s[2] = " " THEN Collapse(Tail(s))
    ELSE <<s[1]>> \o Collapse(Tail(s))
RECURSIVE LStrip(_)
LStrip(s) == IF s # <<>> /\ Head(s) = " " THEN LStrip(Tail(s)) ELSE s
RECURSIVE RStrip(_)
RStrip(s) ==
    IF s # <<>> /\ s[Len(s)] = " " THEN RStrip(SubSeq(s, 1, Len(s) - 1)) ELSE s
clean_transcription(text) == RStrip(LStrip(Collapse(text)))

\* decimal digits of n
Digits == <<"0", "1", "2", "3", "4", "5", "6", "7", "8", "9">>
RECURSIVE Decimal(_)
Decimal(n) ==
    IF n < 10 THEN <<Digits[n + 1]>>
    ELSE Decimal(n \div 10) \o <<Digits[(n % 10) + 1]>>
TwoDigits(n) == <<Digits[((n \div 10) % 10) + 1], Digits[(n % 10) + 1]>>
\* a stamp of t whole seconds as HH:MM:SS<mark>mmm
StampWith(mark, t) ==
    TwoDigits(t \div 3600) \o <<":">> \o TwoDigits((t \div 60) % 60) \o <<":">>
    \o TwoDigits(t % 60) \o <<mark, "0", "0", "0">>
\* one subtitle cue: number, time range, text, blank line
CueWith(mark, i, tok) ==
    Decimal(i) \o <<"\n">> \o StampWith(mark, tok.start)
    \o <<" ", "-", "-", ">", " ">> \o StampWith(mark, tok.end)
    \o <<"\n">> \o tok.word \o <<"\n", "\n">>
\* the cues of a word list, one cue per word, numbered from 1
CuesWith(mark, words) ==
    IF words = <<>> THEN <<>>
    ELSE LET F[i \in 1..Len(words)] ==
                 IF i = 1 THEN CueWith(mark, 1, words[1])
                 ELSE F[i - 1] \o CueWith(mark, i, words[i])
         IN  F[Len(words)]
\* generate_srt_from_words: SRT stamps have a comma before the milliseconds
generate_srt_from_words(words) == CuesWith(",", words)

\* str.replace(old, new) for single characters: every occurrence
Replace(str, old, new) == [i \in 1..Len(str) |-> IF str[i] = old THEN new ELSE str[i]]
WebVttHeader == <<"W", "E", "B", "V", "T", "T", "\n", "\n">>
\* lines 188-191
Vtt(srt_data) == WebVttHeader \o Replace(srt_data, ",", ".")

\* line 181: srt and vtt cannot be rendered
SubtitlesUnavailableFlagOnly(timestamps_flag, words) == timestamps_flag # "True"
SubtitlesUnavailable(timestamps_flag, words) ==
    timestamps_flag # "True" \/ words = <<>>

\* lines 169-191: the value process_asr_request returns
Rendered(response_format, ts, timestamps_flag, timeline, results) ==
    LET full_text == Join(<<" ">>, ts)
    IN  CASE response_format = "text" ->
               [NoPayload EXCEPT !.kind = "text", !.text = clean_transcription(full_text)]
          [] response_format = "json" ->
               [NoPayload EXCEPT !.kind = "json", !.text = full_text,
                                 !.stamped = (timestamps_flag = "True"),
                                 !.timestamps = IF timestamps_flag = "True"
                                                THEN timeline ELSE NoTimeline]
          [] response_format = "verbose_json" ->
               [NoPayload EXCEPT !.kind = "verbose_json", !.records = results]
          [] response_format = "srt" ->
               [NoPayload EXCEPT !.kind = "srt",
                                 !.text = generate_srt_from_words(timeline.word)]
          [] response_format = "vtt" ->
               [NoPayload EXCEPT !.kind = "vtt",
                                 !.text = Vtt(generate_srt_from_words(timeline.word))]
          [] OTHER -> [NoPayload EXCEPT !.kind = "null"]

\* ------------------------------------------------------------------- Init
Init ==
    /\ loop = "free"
    /\ is_flash \in BOOLEAN
    /\ cfgBeam = SettingsBeamSize
    /\ activeBeam = SettingsBeamSize
    /\ pc = [r \in Requests |-> "idle"]
    /\ req = [r \in Requests |-> NoReq]
    /\ flag = [r \in Requests |-> "-"]
    /\ topFile = [r \in Requests |-> "none"]
    /\ duration = [r \in Requests |-> 0]
    /\ chunks = [r \in Requests |-> <<>>]
    /\ chunkFiles = [r \in Requests |-> {}]
    /\ idx = [r \in Requests |-> 0]
    /\ offset = [r \in Requests |-> 0]
    /\ texts = [r \in Requests |-> <<>>]
    /\ timestamps_all = [r \in Requests |-> NoTimeline]
    /\ all_results = [r \in Requests |-> <<>>]
    /\ returned = [r \in Requests |-> <<>>]
    /\ reconfigs = [r \in Requests |-> 0]
    /\ transcribeCalls = [r \in Requests |-> 0]
    /\ inferCalls = [r \in Requests |-> 0]
    /\ resp = [r \in Requests |-> NoResp]
    /\ payload = [r \in Requests |-> NoPayload]
    /\ beamBefore = [r \in Requests |-> NoProfile]

\* ---------------------------------------------------------------- helpers
\* r moves to position p; the event loop follows.
Goto(r, p) ==
    /\ pc' = [pc EXCEPT ![r] = p]
    /\ loop' = LoopAfter(r, p)

\* What is kept of the call's parameters once the handler has returned (its
\* locals are gone): the fields the validation read and, with a success
\* response, the format of the payload.
Summary(q, status) ==
    [NoReq EXCEPT !.language = q.language, !.audio = q.audio,
                  !.response_format = IF status = 200 THEN q.response_format ELSE "-"]

\* ExceptClauses with the clause for Exception tried first
ExceptClausesGenericFirst(status, reason) ==
    IF status = 200
    THEN [status |-> 200, reason |-> reason, detail |-> "-"]
    ELSE [status |-> 500, reason |-> reason, detail |-> "Internal server error"]

\* asr_endpoint, lines 233-247: the response to a return (status 200) or to
\* an exception.  An HTTPException is raised again as it is (lines 239-241);
\* any other exception becomes HTTPException(500, "Internal server error")
\* (lines 245-247).
ExceptClauses(status, reason) ==
    IF status = 200
    THEN [status |-> 200, reason |-> reason, detail |-> "-"]
    ELSE IF status # NoStatusCode
    THEN [status |-> status, reason |-> reason, detail |-> reason]
    ELSE [status |-> 500, reason |-> reason, detail |-> "Internal server error"]

\* asr_endpoint, lines 233-247: the handler ends with a response.  status is
\* 200 for a return, the status code of a raised HTTPException, NoStatusCode
\* for any other exception.
End(r, status, reason) ==
    /\ Goto(r, IF status = 200 THEN "Done" ELSE "Failed")
    /\ resp' = [resp EXCEPT ![r] = ExceptClauses(status, reason)]
    /\ req' = [req EXCEPT ![r] = Summary(@, status)]

\* process_asr_request, lines 83-193: leaving the try block, by return or by
\* raise, runs the finally clause.
ExitTry(r, status, reason) ==
    /\ End(r, status, reason)
    /\ topFile' = [topFile EXCEPT ![r] = FinallyTopFile(@)]

\* ---------------------------------------------------------------- actions
\* A POST /inference arrives: asr_endpoint starts and waits at line 199,
\* await request.form().
Arrive(r) ==
    /\ pc[r] = "idle"
    /\ Runnable(r)
    /\ Goto(r, "await_form")
    /\ UNCHANGED <<is_flash, beamBefore, cfgBeam, activeBeam, req, flag, topFile, duration,
                   chunks, chunkFiles, idx, mergeVars, reconfigs, transcribeCalls,
                   inferCalls, resp>>

\* asr_endpoint, lines 199-205: the form is parsed; without a file named
\* *.wav the handler raises 400, else it waits at await input_file.read().
FormReady(r) ==
    /\ pc[r] = "await_form"
    /\ Runnable(r)
    /\ \E has_wav \in BOOLEAN :
         IF has_wav
         THEN Goto(r, "await_read") /\ UNCHANGED <<req, resp>>
         ELSE End(r, 400, "MissingFile")
    /\ UNCHANGED <<is_flash, beamBefore, cfgBeam, activeBeam, flag, topFile, duration,
                   chunks, chunkFiles, idx, mergeVars, reconfigs, transcribeCalls,
                   inferCalls>>

\* asr_endpoint, lines 205-231, and process_asr_request, lines 56-77: the
\* upload is read, the form fields are taken, process_asr_request is entered,
\* validates the language and the container and computes timestamps_flag.
\* int() of a beam_size or batch_size field that is no integer raises
\* ValueError (lines 209-210).
Enter(r) ==
    /\ pc[r] = "await_read"
    /\ Runnable(r)
    /\ \/ /\ End(r, NoStatusCode, "FormParse")
          /\ UNCHANGED flag
       \/ \E l \in Languages, a \in AudioHeads, t \in TimestampFields,
             f \in ResponseFormats, b \in BeamSizes, w \in WordBoosts :
            LET q == [language |-> l, audio |-> a, timestamps |-> t,
                      response_format |-> f, beam_size |-> b, word_boosting |-> w]
                v == ValidationFailure(l, a)
            IN  IF v # "ok"
                THEN /\ Goto(r, "Failed")
                     /\ resp' = [resp EXCEPT ![r] = ExceptClauses(400, v)]
                     /\ req' = [req EXCEPT ![r] = Summary(q, 400)]
                     /\ UNCHANGED flag
                ELSE /\ req' = [req EXCEPT ![r] = q]
                     /\ flag' = [flag EXCEPT ![r] = TimestampsFlag(f, t)]
                     /\ Goto(r, "canonicalize")
                     /\ UNCHANGED resp
    /\ UNCHANGED <<is_flash, beamBefore, cfgBeam, activeBeam, topFile, duration,
                   chunks, chunkFiles, idx, mergeVars, reconfigs, transcribeCalls,
                   inferCalls>>

\* process_asr_request, lines 79-81: ensure_mono_wav, then save_temp_audio
\* (lines 40-43), which creates the file before it writes to it.  Both run
\* before the try block.
Canonicalize(r) ==
    /\ pc[r] = "canonicalize"
    /\ Runnable(r)
    /\ \/ End(r, NoStatusCode, "Canonicalize") /\ UNCHANGED topFile
       \/ /\ End(r, NoStatusCode, "SaveTemp")
          /\ topFile' = [topFile EXCEPT ![r] = "exists"]
       \/ /\ topFile' = [topFile EXCEPT ![r] = "exists"]
          /\ Goto(r, "ensure")
          /\ UNCHANGED <<req, resp>>
    /\ UNCHANGED <<is_flash, beamBefore, cfgBeam, activeBeam, flag, duration,
                   chunks, chunkFiles, idx, mergeVars, reconfigs, transcribeCalls,
                   inferCalls>>

\* process_asr_request, lines 85-87: the beam size is compared with the
\* configured default and, if it differs, written into the shared decoding
\* configuration.
Ensure(r) ==
    /\ pc[r] = "ensure"
    /\ Runnable(r)
    /\ IF NeedsReconfigure(req[r].beam_size)
       THEN /\ cfgBeam' = req[r].beam_size
            /\ Goto(r, "reconfigure")
       ELSE /\ Goto(r, "tscheck")
            /\ UNCHANGED cfgBeam
    /\ beamBefore' = [beamBefore EXCEPT ![r] = <<cfgBeam, activeBeam>>]
    /\ UNCHANGED <<is_flash, activeBeam, req, flag, topFile, duration,
                   chunks, chunkFiles, idx, mergeVars, reconfigs, transcribeCalls,
                   inferCalls, resp>>

\* process_asr_request, line 88: change_decoding_strategy(decode_cfg) rebuilds
\* the decoding strategy from the configuration, or raises.
Reconfigure(r) ==
    /\ pc[r] = "reconfigure"
    /\ Runnable(r)
    /\ reconfigs' = [reconfigs EXCEPT ![r] = @ + 1]
    /\ \/ /\ activeBeam' = cfgBeam
          /\ Goto(r, "tscheck")
          /\ UNCHANGED <<req, resp, topFile, beamBefore>>
       \/ /\ ExitTry(r, NoStatusCode, "Reconfigure")
          /\ beamBefore' = [beamBefore EXCEPT ![r] = NoProfile]
          /\ UNCHANGED activeBeam
    /\ UNCHANGED <<is_flash, cfgBeam, flag, duration,
                   chunks, chunkFiles, idx, mergeVars, transcribeCalls,
                   inferCalls>>

\* process_asr_request, lines 90-93.
TsCheck(r) ==
    /\ pc[r] = "tscheck"
    /\ Runnable(r)
    /\ IF TimestampsUnsupported(flag[r], is_flash)
       THEN ExitTry(r, 400, "TimestampsUnsupported")
       ELSE Goto(r, "measure") /\ UNCHANGED <<req, resp, topFile>>
    /\ beamBefore' = [beamBefore EXCEPT ![r] = NoProfile]
    /\ UNCHANGED <<is_flash, cfgBeam, activeBeam, flag, duration,
                   chunks, chunkFiles, idx, mergeVars, reconfigs, transcribeCalls,
                   inferCalls>>

\* process_asr_request, lines 95-105: the duration is measured (wave.open may
\* raise) and compared with settings.max_chunk_duration_sec.
Measure(r) ==
    /\ pc[r] = "measure"
    /\ Runnable(r)
    /\ \/ /\ ExitTry(r, NoStatusCode, "Measure")
          /\ UNCHANGED duration
       \/ \E d \in Durations :
            /\ duration' = [duration EXCEPT ![r] = d]
            /\ Goto(r, IF d > MaxChunkDurationSec THEN "split" ELSE "transcribe")
            /\ UNCHANGED <<req, resp, topFile>>
    /\ UNCHANGED <<is_flash, beamBefore, cfgBeam, activeBeam, flag,
                   chunks, chunkFiles, idx, mergeVars, reconfigs, transcribeCalls,
                   inferCalls>>

\* process_asr_request, lines 109-111: split_audio_into_chunks writes the
\* chunk files, or raises.
Split(r) ==
    /\ pc[r] = "split"
    /\ Runnable(r)
    /\ \/ /\ ExitTry(r, NoStatusCode, "Split")
          /\ UNCHANGED <<chunks, chunkFiles, idx>>
       \/ /\ chunks' = [chunks EXCEPT ![r] =
                          SplitDurations(duration[r], MaxChunkDurationSec)]
          /\ chunkFiles' = [chunkFiles EXCEPT ![r] = 1..Len(chunks'[r])]
          /\ idx' = [idx EXCEPT ![r] = 1]
          /\ Goto(r, "transcribe")
          /\ UNCHANGED <<req, resp, topFile>>
    /\ UNCHANGED <<is_flash, beamBefore, cfgBeam, activeBeam, flag, duration,
                   mergeVars, reconfigs, transcribeCalls, inferCalls>>

\* process_asr_request, lines 113 and 152: the request takes the chunked branch.
Chunked(r) == duration[r] > MaxChunkDurationSec

\* process_asr_request, lines 125-150: one pass of the for loop after the call
\* for chunk idx has returned res.
MergeChunk(r, res) ==
    LET i == idx[r]
        shift == flag[r] = "True" /\ res.has_ts
    IN  /\ texts' = [texts EXCEPT ![r] = Append(@, res.text)]
        /\ timestamps_all' = [timestamps_all EXCEPT ![r] =
               IF shift
               THEN [word |-> @.word \o ShiftAll(res.word, offset[r]),
                     segment |-> @.segment \o ShiftAll(res.segment, offset[r])]
               ELSE @]
        /\ offset' = [offset EXCEPT ![r] = @ + chunks[r][i]]
        /\ chunkFiles' = [chunkFiles EXCEPT ![r] = @ \ {i}]
        /\ idx' = [idx EXCEPT ![r] = i + 1]
        /\ Goto(r, IF i = Len(chunks[r]) THEN "format" ELSE "transcribe")
        /\ UNCHANGED all_results

\* process_asr_request, lines 162-167: the unsplit branch after the call has
\* returned res.
MergeWhole(r, res) ==
    /\ all_results' = [all_results EXCEPT ![r] = Append(@, res)]
    /\ texts' = [texts EXCEPT ![r] = Append(@, res.text)]
    /\ timestamps_all' = [timestamps_all EXCEPT ![r] =
           IF flag[r] = "True" /\ res.has_ts
           THEN [word |-> @.word \o res.word, segment |-> @.segment \o res.segment]
           ELSE @]
    /\ Goto(r, "format")
    /\ UNCHANGED <<offset, chunkFiles, idx>>

\* CanaryService.transcribe, lines 61-86, once the call is bound: it invokes
\* model.transcribe, which raises or returns a result; the caller then merges
\* the result.
CapabilityCall(r) ==
    /\ inferCalls' = [inferCalls EXCEPT ![r] = @ + 1]
    /\ \/ /\ ExitTry(r, NoStatusCode, "Inference")
          /\ UNCHANGED <<mergeVars, chunkFiles, idx>>
       \/ \E res \in ResultsFor(flag[r],
                               IF Chunked(r) THEN chunks[r][idx[r]] ELSE duration[r]) :
            /\ returned' = [returned EXCEPT ![r] = Append(@, res)]
            /\ IF Chunked(r) THEN MergeChunk(r, res) ELSE MergeWhole(r, res)
            /\ UNCHANGED <<req, resp, topFile, payload>>

\* process_asr_request, lines 115-123 and 153-161: the call of
\* transcriber.transcribe for the chunk at idx, or for the whole file.
Transcribe(r) ==
    /\ pc[r] = "transcribe"
    /\ Runnable(r)
    /\ transcribeCalls' = [transcribeCalls EXCEPT ![r] = @ + 1]
    /\ IF CallBinds
       THEN CapabilityCall(r)
       ELSE /\ ExitTry(r, NoStatusCode, "TypeError")
            /\ UNCHANGED <<mergeVars, chunkFiles, idx, inferCalls>>
    /\ UNCHANGED <<is_flash, beamBefore, cfgBeam, activeBeam, flag, duration, chunks, reconfigs>>

\* process_asr_request, lines 169-193: the response is rendered; srt and vtt
\* need a word timeline.  A response_format none of the branches names falls
\* through: the function returns None and the endpoint answers 200.
Format(r) ==
    /\ pc[r] = "format"
    /\ Runnable(r)
    /\ IF /\ req[r].response_format \in {"srt", "vtt"}
          /\ SubtitlesUnavailable(flag[r], timestamps_all[r].word)
       THEN /\ ExitTry(r, 400, "TimestampsRequired")
            /\ UNCHANGED payload
       ELSE /\ ExitTry(r, 200, "ok")
            /\ payload' = [payload EXCEPT ![r] =
                              Rendered(req[r].response_format, texts[r], flag[r],
                                       timestamps_all[r], all_results[r])]
    /\ UNCHANGED <<is_flash, beamBefore, cfgBeam, activeBeam, flag, duration, chunks,
                   chunkFiles, idx, offset, texts, timestamps_all, all_results,
                   returned, reconfigs, transcribeCalls, inferCalls>>

\* The caller disconnects or the server gives up: the request's task is
\* cancelled.  asyncio raises CancelledError inside the coroutine at the await
\* it is suspended at, the next time the event loop is free.  CancelledError
\* is a BaseException: neither except clause of asr_endpoint (lines 239-247)
\* catches it, a finally clause around the await runs, and no response is
\* sent.
Cancel(r) ==
    /\ Suspended(r)
    /\ loop = "free"
    /\ pc' = [pc EXCEPT ![r] = "Cancelled"]
    /\ topFile' = [topFile EXCEPT ![r] = IF pc[r] \in InTry THEN FinallyTopFile(@) ELSE @]
    /\ req' = [req EXCEPT ![r] = Summary(@, 0)]
    /\ UNCHANGED <<loop, is_flash, beamBefore, cfgBeam, activeBeam, flag, duration, chunks,
                   chunkFiles, idx, mergeVars, reconfigs, transcribeCalls,
                   inferCalls, resp>>

\* The response has been sent; the slot takes the next request.  The shared
\* model keeps its state.
NextRequest(r) ==
    /\ pc[r] \in Ended \cup {"Cancelled"}
    /\ Runnable(r)
    /\ Goto(r, "idle")
    /\ req' = [req EXCEPT ![r] = NoReq]
    /\ flag' = [flag EXCEPT ![r] = "-"]
    /\ topFile' = [topFile EXCEPT ![r] = "none"]
    /\ duration' = [duration EXCEPT ![r] = 0]
    /\ chunks' = [chunks EXCEPT ![r] = <<>>]
    /\ chunkFiles' = [chunkFiles EXCEPT ![r] = {}]
    /\ idx' = [idx EXCEPT ![r] = 0]
    /\ offset' = [offset EXCEPT ![r] = 0]
    /\ texts' = [texts EXCEPT ![r] = <<>>]
    /\ timestamps_all' = [timestamps_all EXCEPT ![r] = NoTimeline]
    /\ all_results' = [all_results EXCEPT ![r] = <<>>]
    /\ returned' = [returned EXCEPT ![r] = <<>>]
    /\ reconfigs' = [reconfigs EXCEPT ![r] = 0]
    /\ transcribeCalls' = [transcribeCalls EXCEPT ![r] = 0]
    /\ inferCalls' = [inferCalls EXCEPT ![r] = 0]
    /\ resp' = [resp EXCEPT ![r] = NoResp]
    /\ payload' = [payload EXCEPT ![r] = NoPayload]
    /\ UNCHANGED <<is_flash, beamBefore, cfgBeam, activeBeam>>

\* ---------------------------------------------------------- specification
\* The service as the sources have it.
Next ==
    \E r \in Requests :
        \/ Arrive(r)
        \/ FormReady(r)
        \/ Enter(r)
        \/ Canonicalize(r)
        \/ Ensure(r)
        \/ Reconfigure(r)
        \/ TsCheck(r)
        \/ Measure(r)
        \/ Split(r)
        \/ Transcribe(r)
        \/ Cancel(r)
        \/ NextRequest(r)

Spec == Init /\ [][Next]_vars

\* ------------------------------------------- the reconciliation, on its own
\* The statements after a transcribe call run only once the call has returned.
\* SpecReconcile starts where process_asr_request makes its first call, for a
\* request that passed every step before it, and lets each call reach the
\* capability: the merge loop and the formatting applied to every result list
\* the capability can return.
InitReconcile ==
    /\ loop = "r1"
    /\ is_flash \in BOOLEAN
    /\ cfgBeam = SettingsBeamSize
    /\ activeBeam = SettingsBeamSize
    /\ pc = [r \in Requests |-> IF r = "r1" THEN "transcribe" ELSE "idle"]
    /\ req \in {[r \in Requests |->
                   IF r = "r1"
                   THEN [language |-> "en", audio |-> "RIFF", timestamps |-> t,
                         response_format |-> f, beam_size |-> SettingsBeamSize,
                         word_boosting |-> <<>>]
                   ELSE NoReq] : t \in {"yes", "no"}, f \in ResponseFormats}
    /\ flag = [r \in Requests |->
                 IF r = "r1"
                 THEN TimestampsFlag(req[r].response_format, req[r].timestamps)
                 ELSE "-"]
    /\ ~TimestampsUnsupported(flag["r1"], is_flash)
    /\ topFile = [r \in Requests |-> IF r = "r1" THEN "exists" ELSE "none"]
    /\ duration \in {[r \in Requests |-> IF r = "r1" THEN d ELSE 0] : d \in Durations}
    /\ chunks = [r \in Requests |->
                   IF duration[r] > MaxChunkDurationSec
                   THEN SplitDurations(duration[r], MaxChunkDurationSec)
                   ELSE <<>>]
    /\ chunkFiles = [r \in Requests |-> 1..Len(chunks[r])]
    /\ idx = [r \in Requests |-> IF chunks[r] # <<>> THEN 1 ELSE 0]
    /\ offset = [r \in Requests |-> 0]
    /\ texts = [r \in Requests |-> <<>>]
    /\ timestamps_all = [r \in Requests |-> NoTimeline]
    /\ all_results = [r \in Requests |-> <<>>]
    /\ returned = [r \in Requests |-> <<>>]
    /\ reconfigs = [r \in Requests |-> 0]
    /\ transcribeCalls = [r \in Requests |-> 0]
    /\ inferCalls = [r \in Requests |-> 0]
    /\ resp = [r \in Requests |-> NoResp]
    /\ payload = [r \in Requests |-> NoPayload]
    /\ beamBefore = [r \in Requests |-> NoProfile]

\* a transcribe call that reaches the capability
CallReaches(r) ==
    /\ pc[r] = "transcribe"
    /\ Runnable(r)
    /\ transcribeCalls' = [transcribeCalls EXCEPT ![r] = @ + 1]
    /\ CapabilityCall(r)
    /\ UNCHANGED <<is_flash, beamBefore, cfgBeam, activeBeam, flag, duration, chunks, reconfigs>>

NextReconcile ==
    \E r \in Requests :
        \/ CallReaches(r)
        \/ Format(r)

SpecReconcile == InitReconcile /\ [][NextReconcile]_vars

\* ------------------------------------------------------------ vocabulary
\* positions inside process_asr_request after the validation
AfterValidation ==
    {"canonicalize", "ensure", "reconfigure", "tscheck", "measure", "split",
     "transcribe", "format"}
\* failures of the form and of the validation, raised before any allocation
ValidationReasons == {"MissingFile", "FormParse", "UnsupportedLanguage", "InvalidAudio"}
\* failures raised by a collaborator: canonicalization, scratch storage, the
\* decoding reconfiguration, the wave reader, the splitter, the capability
CollaboratorReasons ==
    {"Canonicalize", "SaveTemp", "Reconfigure", "Measure", "Split", "Inference"}
PolicyReasons == {"TimestampsUnsupported", "TimestampsRequired"}
\* the exits the try block of process_asr_request covers
TryExits ==
    {"Reconfigure", "TimestampsUnsupported", "Measure", "Split", "TypeError",
     "Inference", "TimestampsRequired", "ok"}

\* ------------------------------------------------------------------ C1
\* C1: every transcribe call made for a request runs while the active beam
\* size of the shared model equals the request's beam_size.
C1_CallUnderRequestedBeam ==
    \A r \in Requests :
        pc[r] = "transcribe" => activeBeam = req[r].beam_size

\* ------------------------------------------------------------------ C2
\* C2: no request is reconfiguring the shared decoding profile while another
\* request is reconfiguring it or is in its inference call.
C2_ReconfigurationExclusive ==
    \A r1, r2 \in Requests :
        r1 # r2 =>
            ~(pc[r1] = "reconfigure" /\ pc[r2] \in {"reconfigure", "transcribe"})

\* a request is between the write of the beam size and change_decoding_strategy
\* while another request is in flight
C2_Witness ==
    \E r1, r2 \in Requests :
        r1 # r2 /\ pc[r1] = "reconfigure" /\ pc[r2] \in AwaitPoints

\* ------------------------------------------------------------------ C3
\* C3: once a request has ended, by an exit of the try block (the timestamp
\* check, the reconfiguration, the duration measurement, the split, an
\* inference call, the formatting, or success), its top-level scratch file is
\* removed; a request rejected by the validation never had one.
C3_TopFileReleased ==
    \A r \in Requests :
        pc[r] \in Ended =>
            /\ resp[r].reason \in TryExits => topFile[r] = "removed"
            /\ resp[r].reason \in ValidationReasons => topFile[r] = "none"

\* a request that had its scratch file and split it has ended in its inference
\* call
C3_Witness ==
    \E r \in Requests :
        /\ pc[r] = "Failed"
        /\ resp[r].reason = "TypeError"
        /\ Len(chunks[r]) > 1
        /\ topFile[r] = "removed"

\* ------------------------------------------------------------------ C4
\* C4: a chunked request that ended because an inference call failed has no
\* chunk file left.
C4_ChunkFilesDeleted ==
    \A r \in Requests :
        (pc[r] = "Failed" /\ Chunked(r) /\ resp[r].reason \in {"TypeError", "Inference"})
            => chunkFiles[r] = {}

\* ------------------------------------------------------------------ C5
\* C5: a request with an unsupported language, or with audio that is empty or
\* does not start with RIFF, is never past the validation, and ends with a 400
\* response, no scratch file, no reconfiguration and no inference call.
C5_RejectedBeforeAllocation ==
    \A r \in Requests :
        (/\ req[r].language # "-"
         /\ \/ req[r].language \notin {"en", "de", "fr", "es"}
            \/ req[r].audio = ""
            \/ req[r].audio # "RIFF")
            => /\ pc[r] = "Failed"
               /\ resp[r].status = 400
               /\ resp[r].reason \in {"UnsupportedLanguage", "InvalidAudio"}
               /\ topFile[r] = "none"
               /\ chunkFiles[r] = {}
               /\ reconfigs[r] = 0
               /\ transcribeCalls[r] = 0
               /\ inferCalls[r] = 0

\* a request with a supported language and a non-RIFF upload has been rejected
C5_Witness ==
    \E r \in Requests :
        /\ pc[r] = "Failed"
        /\ req[r].language = "en"
        /\ req[r].audio = "OggS"
        /\ resp[r].status = 400

\* ------------------------------------------------------------------ C6
\* C6: a request that passed the validation and the timestamp policy and none
\* of whose collaborators failed ends in Done after exactly one inference
\* invocation (duration within the threshold) or exactly one per chunk.
C6_InvocationCount ==
    \A r \in Requests :
        (/\ pc[r] \in Ended
         /\ resp[r].reason \notin
                ValidationReasons \cup CollaboratorReasons \cup PolicyReasons)
            => /\ pc[r] = "Done"
               /\ inferCalls[r] = IF Chunked(r) THEN Len(chunks[r]) ELSE 1

\* ------------------------------------------------------------------ C7
\* C7: the word-boost list goes with every transcribe call down to the
\* capability, and no call fails for carrying it.
C7_WordBoostingPassedOn ==
    \A r \in Requests :
        transcribeCalls[r] > 0 =>
            /\ resp[r].reason # "TypeError"
            /\ "word_boosting" \in ForwardedKeywords

\* ------------------------------------------------------------------ C8
\* the sum of the first n durations of ch
RECURSIVE SumOfFirst(_, _)
SumOfFirst(ch, n) == IF n = 0 THEN 0 ELSE SumOfFirst(ch, n - 1) + ch[n]

\* the tokens the first k results contribute, each moved by the durations of
\* the chunks before its own
RECURSIVE Contributed(_, _, _, _)
Contributed(res, ch, kind, k) ==
    IF k = 0 THEN <<>>
    ELSE LET toks == IF res[k].has_ts THEN res[k][kind] ELSE <<>>
             before == SumOfFirst(ch, k - 1)
         IN  Contributed(res, ch, kind, k - 1) \o
             [j \in 1..Len(toks) |->
                [word |-> toks[j].word,
                 start |-> toks[j].start + before,
                 end |-> toks[j].end + before]]

\* C8: in a chunked request with timestamps on, the merged word and segment
\* timelines hold the stamps of every chunk transcribed so far, chunk after
\* chunk and in each chunk's order, those of chunk i moved by the sum of the
\* measured durations of the chunks before it.
C8_ShiftedByPrecedingDurations ==
    \A r \in Requests :
        (Chunked(r) /\ flag[r] = "True") =>
            /\ timestamps_all[r].word =
                   Contributed(returned[r], chunks[r], "word", Len(returned[r]))
            /\ timestamps_all[r].segment =
                   Contributed(returned[r], chunks[r], "segment", Len(returned[r]))

\* three chunks merged, the last with two words and a segment
C8_Witness ==
    \E r \in Requests :
        /\ Chunked(r)
        /\ flag[r] = "True"
        /\ pc[r] = "format"
        /\ Len(returned[r]) = 3
        /\ Len(returned[r][2].word) = 2
        /\ Len(returned[r][3].word) = 1
        /\ Len(returned[r][3].segment) = 1
        /\ Len(timestamps_all[r].word) >= 3
        /\ offset[r] = duration[r]

\* ------------------------------------------------------------------ C9
\* C9: timestamps_flag depends on response_format and the timestamps field
\* only: off for text; on for srt and vtt; otherwise on exactly when the
\* field is "yes".
C9_TimestampPolicy ==
    \A r \in Requests :
        pc[r] \in AfterValidation =>
            /\ req[r].response_format = "text" => flag[r] = "None"
            /\ req[r].response_format \in {"srt", "vtt"} => flag[r] = "True"
            /\ req[r].response_format \notin {"text", "srt", "vtt"} =>
                   (flag[r] = "True" <=> req[r].timestamps = "yes")
            /\ flag[r] \in {"True", "None"}

\* a transcribe call for srt output whose timestamps field said no
C9_Witness ==
    \E r \in Requests :
        /\ pc[r] = "transcribe"
        /\ req[r].response_format = "srt"
        /\ req[r].timestamps = "no"
        /\ flag[r] = "True"

\* ------------------------------------------------------------------ C10
\* C10 as stated: with timestamps_flag on and a model that is no flash model,
\* the request ends with the 400 TimestampsUnsupported error and no inference
\* call was made for it.
C10_AlwaysTimestampsUnsupported ==
    \A r \in Requests :
        (pc[r] \in Ended /\ flag[r] = "True" /\ ~is_flash)
            => /\ resp[r].status = 400
               /\ resp[r].reason = "TimestampsUnsupported"
               /\ transcribeCalls[r] = 0
               /\ inferCalls[r] = 0

\* C10 amended: with timestamps_flag on and a model that is no flash model,
\* the request never gets past the timestamp check, no inference call is made
\* for it, and it ends Failed: with the 400 TimestampsUnsupported error unless
\* one of the steps before the check (canonicalization, writing the scratch
\* file, the reconfiguration) raised first.
C10_NoInferenceWithoutTimestampSupport ==
    \A r \in Requests :
        (flag[r] = "True" /\ ~is_flash)
            => /\ pc[r] \notin {"measure", "split", "transcribe", "format", "Done"}
               /\ transcribeCalls[r] = 0
               /\ inferCalls[r] = 0
               /\ (pc[r] = "Failed"
                   /\ resp[r].reason \notin {"Canonicalize", "SaveTemp", "Reconfigure"})
                      => /\ resp[r].status = 400
                         /\ resp[r].reason = "TimestampsUnsupported"

\* a request rejected by the timestamp check after it had reconfigured the model
C10_Witness ==
    \E r \in Requests :
        /\ pc[r] = "Failed"
        /\ resp[r].reason = "TimestampsUnsupported"
        /\ reconfigs[r] = 1
        /\ transcribeCalls[r] = 0

\* ------------------------------------------------------------------ C11
\* the cues of a subtitle body: each cue ends with a blank line
CueCount(p) ==
    LET blank == {i \in 1..(Len(p.text) - 1) : p.text[i] = "\n" /\ p.text[i + 1] = "\n"}
    IN  IF p.kind = "vtt" THEN Cardinality(blank) - 1 ELSE Cardinality(blank)

\* C11: when every inference call of an srt or vtt request has returned and
\* the merged word timeline is empty, the request ends with the 400
\* "timestamps required" error and no payload; an srt or vtt success response
\* always holds at least one cue.
C11_NoEmptySubtitles ==
    [][\A r \in Requests :
         /\ (/\ pc[r] = "format"
             /\ pc'[r] # "format"
             /\ req[r].response_format \in {"srt", "vtt"}
             /\ timestamps_all[r].word = <<>>)
            => /\ pc'[r] = "Failed"
               /\ resp'[r].status = 400
               /\ resp'[r].reason = "TimestampsRequired"
               /\ payload'[r] = NoPayload
         /\ (pc'[r] = "Done" /\ req'[r].response_format \in {"srt", "vtt"})
            => /\ payload'[r].kind = req'[r].response_format
               /\ CueCount(payload'[r]) >= 1]_vars

\* an srt or vtt request whose calls all returned without word stamps was
\* refused
C11_Witness ==
    \E r \in Requests :
        /\ pc[r] = "Failed"
        /\ resp[r].reason = "TimestampsRequired"
        /\ flag[r] = "True"
        /\ Len(returned[r]) >= 2
        /\ \A k \in 1..Len(returned[r]) : returned[r][k].word = <<>>
        /\ timestamps_all[r].word = <<>>

\* ------------------------------------------------------------------ C12
\* C12: the verbose_json payload holds one record for every result the
\* inference calls of the request returned, in call order.
C12_VerboseHoldsEveryResult ==
    \A r \in Requests :
        (pc[r] = "Done" /\ req[r].response_format = "verbose_json")
            => /\ payload[r].kind = "verbose_json"
               /\ payload[r].records = returned[r]

\* ------------------------------------------------------------------ C13
\* C13: the vtt payload is the WEBVTT header and a blank line followed by the
\* srt payload of the same word timeline in which only the comma of each cue
\* stamp is a period: cue numbers and cue texts are those of the srt payload,
\* commas in the text included.
C13_VttKeepsCueText ==
    \A r \in Requests :
        (pc[r] = "Done" /\ req[r].response_format = "vtt")
            => payload[r].text = WebVttHeader \o CuesWith(".", timestamps_all[r].word)

\* ------------------------------------------------------------------ C14
\* the formats the branches of lines 171-180 render
RenderedFormats == {"text", "json", "verbose_json", "srt", "vtt"}

\* C14: a request past the validation has a supported language and one of
\* the five rendered formats; a request with any other format makes no
\* transcribe call and gets no success response.
C14_ValidatedRequest ==
    \A r \in Requests :
        /\ pc[r] \in AfterValidation
            => /\ req[r].language \in SUPPORTED_LANGUAGES
               /\ req[r].response_format \in RenderedFormats
        /\ req[r].response_format \notin RenderedFormats \cup {"-"}
            => /\ transcribeCalls[r] = 0
               /\ pc[r] # "Done"

\* ------------------------------------------------------------------ C15
\* C15: once the handler of a cancelled request has returned, neither the
\* request's top-level scratch file nor any of its chunk files is on disk.
C15_CancelledLeavesNoFile ==
    \A r \in Requests :
        pc[r] = "Cancelled" => topFile[r] # "exists" /\ chunkFiles[r] = {}

\* a request cancelled while another request, holding scratch files, had been
\* served in between
C15_Witness ==
    \E r \in Requests, o \in Requests :
        /\ pc[r] = "Cancelled"
        /\ topFile[r] = "none"
        /\ o # r
        /\ pc[o] = "Failed"
        /\ chunkFiles[o] # {}

\* ------------------------------------------------------------------ C16
\* C16: a failed request carries status 400 exactly when it failed for an
\* unsupported language, a missing or non-WAV upload, timestamps the model
\* does not support, or missing timestamps for srt or vtt; every other failed
\* request carries status 500 with the fixed message; no failed request
\* carries a transcript.
C16_StatusOfFailure ==
    \A r \in Requests :
        pc[r] = "Failed"
            => /\ resp[r].status \in {400, 500}
               /\ resp[r].status = 400
                    <=> resp[r].reason \in
                          {"UnsupportedLanguage", "MissingFile", "InvalidAudio",
                           "TimestampsUnsupported", "TimestampsRequired"}
               /\ resp[r].status = 500 => resp[r].detail = "Internal server error"
               /\ payload[r] = NoPayload

\* one request failed in the reconfiguration, another at the timestamp check
C16_Witness ==
    \E r \in Requests, o \in Requests :
        /\ pc[r] = "Failed"
        /\ resp[r].reason = "Reconfigure"
        /\ resp[r].status = 500
        /\ pc[o] = "Failed"
        /\ resp[o].reason = "TimestampsUnsupported"
        /\ resp[o].status = 400
        /\ resp[o].detail # "Internal server error"

\* ------------------------------------------------------------------ C17
\* C17: a request is about to call change_decoding_strategy only if its
\* beam_size differs from the beam size the model is decoding with; a request
\* whose beam_size is the active one does not reconfigure.
C17_ReconfiguresOnlyOnChange ==
    \A r \in Requests :
        pc[r] = "reconfigure" => req[r].beam_size # activeBeam

\* ------------------------------------------------------------------ C18
\* the start times of a token list are non-negative and never go down
NonDecreasing(toks) ==
    /\ \A i \in 1..Len(toks) : toks[i].start >= 0
    /\ \A i \in 1..(Len(toks) - 1) : toks[i].start <= toks[i + 1].start

\* C18: in a request over several chunks with timestamps on, if the word
\* start times of every result returned so far are non-negative and
\* non-decreasing in file-local time, the start times of the merged word
\* timeline are non-decreasing, across the chunk boundaries as well.
C18_MergedStartsNonDecreasing ==
    \A r \in Requests :
        (/\ Chunked(r)
         /\ flag[r] = "True"
         /\ \A k \in 1..Len(returned[r]) : NonDecreasing(returned[r][k].word))
            => NonDecreasing(timestamps_all[r].word)

\* three chunks merged, the first two with two words each, the second word of
\* a chunk starting later than its first
C18_Witness ==
    \E r \in Requests :
        /\ pc[r] = "format"
        /\ flag[r] = "True"
        /\ Len(chunks[r]) = 3
        /\ \A k \in 1..3 : NonDecreasing(returned[r][k].word)
        /\ \A k \in 1..2 :
              /\ Len(returned[r][k].word) = 2
              /\ returned[r][k].word[1].start < returned[r][k].word[2].start
        /\ Len(returned[r][3].word) >= 1
        /\ Len(timestamps_all[r].word) >= 5

\* ------------------------------------------------------------------ C19
\* the characters of the first n texts of ts
RECURSIVE CharsOfFirst(_, _)
CharsOfFirst(ts, n) == IF n = 0 THEN 0 ELSE CharsOfFirst(ts, n - 1) + Len(ts[n])

\* where the k-th text starts in a text that holds ts with one character
\* between neighbours
StartOf(ts, k) == CharsOfFirst(ts, k - 1) + (k - 1) + 1

\* C19: the call for a chunk is made only when the calls for all chunks
\* before it have returned, in the order of the split; the text of the k-th
\* chunk is the k-th text, and the merged text is the chunk texts in that
\* order with exactly one space between neighbours.
C19_InOrderJoinedBySpace ==
    \A r \in Requests :
        Chunked(r) =>
            /\ pc[r] = "transcribe"
                => /\ idx[r] = transcribeCalls[r] + 1
                   /\ idx[r] <= Len(chunks[r])
                   /\ Len(returned[r]) = transcribeCalls[r]
            /\ Len(texts[r]) = Len(returned[r])
            /\ \A k \in 1..Len(returned[r]) :
                  /\ texts[r][k] = returned[r][k].text
                  /\ \A j \in 1..Len(returned[r][k].word) :
                        returned[r][k].word[j].end <= chunks[r][k]
            /\ (pc[r] = "Done" /\ payload[r].kind = "json")
                => LET ts == [k \in 1..Len(returned[r]) |-> returned[r][k].text]
                       n == Len(ts)
                       full == payload[r].text
                   IN  /\ n = Len(chunks[r])
                       /\ Len(full) = CharsOfFirst(ts, n) + (n - 1)
                       /\ \A k \in 1..n :
                             SubSeq(full, StartOf(ts, k), StartOf(ts, k) + Len(ts[k]) - 1)
                                 = ts[k]
                       /\ \A k \in 1..(n - 1) :
                             full[StartOf(ts, k) + Len(ts[k])] = " "

\* a json response over three chunks whose texts differ
C19_Witness ==
    \E r \in Requests :
        /\ pc[r] = "Done"
        /\ payload[r].kind = "json"
        /\ Len(chunks[r]) = 3
        /\ returned[r][1].text = <<"a">>
        /\ returned[r][2].text = <<"b">>
        /\ returned[r][3].text = <<"b">>
        /\ payload[r].text = <<"a", " ", "b", " ", "b">>

\* ------------------------------------------------------------------ C20
\* r is rejected in this step for its language, its container or the
\* timestamp support of the model
RejectedBeforeCall(r) ==
    /\ pc[r] # "Failed"
    /\ pc'[r] = "Failed"
    /\ resp'[r].reason \in {"UnsupportedLanguage", "InvalidAudio", "TimestampsUnsupported"}

\* the decoding profile as it was when the request being rejected started
ProfileBefore(r) ==
    IF pc[r] = "tscheck" THEN beamBefore[r] ELSE <<cfgBeam, activeBeam>>

\* C20: a request rejected before any inference call is made, for its
\* language, its container or the timestamp support of the model, leaves the
\* shared decoding profile as it was before the request.
C20_RejectedLeavesProfile ==
    [][\A r \in Requests :
         RejectedBeforeCall(r) => <<cfgBeam', activeBeam'>> = ProfileBefore(r)]_vars

\* C20, amended: a request rejected by the validation leaves the profile as
\* it was; so does a request rejected by the timestamp check whose beam_size
\* is the configured default; one rejected by the timestamp check with any
\* other beam_size has reconfigured the shared model to its beam_size.
C20_RejectedAfterReconfiguration ==
    [][\A r \in Requests :
         RejectedBeforeCall(r) =>
             IF \/ resp'[r].reason \in {"UnsupportedLanguage", "InvalidAudio"}
                \/ req[r].beam_size = SettingsBeamSize
             THEN /\ <<cfgBeam', activeBeam'>> = ProfileBefore(r)
                  /\ reconfigs'[r] = 0
             ELSE /\ cfgBeam' = req[r].beam_size
                  /\ activeBeam' = req[r].beam_size
                  /\ reconfigs'[r] = 1]_vars

\* a request with the default beam size was rejected by the timestamp check
\* and left the non-default profile of an earlier request in place
C20_Witness ==
    \E r \in Requests :
        /\ pc[r] = "Failed"
        /\ resp[r].reason = "TimestampsUnsupported"
        /\ reconfigs[r] = 0
        /\ cfgBeam # SettingsBeamSize
        /\ activeBeam = cfgBeam

====
